---- MODULE Spec2Model ----
(***************************************************************************)
(* Model of postgresql_tune.py (Python 2 semantics: `/` on integers is     *)
(* floor division, dict.pop(key) raises KeyError on a missing key).        *)
(*                                                                         *)
(* Text (str) is a sequence of one-character strings, so that the regular  *)
(* expression of write_optimizations, str.replace, str.format, readlines   *)
(* and ''.join are computed character by character.                        *)
(***************************************************************************)
EXTENDS Integers, Sequences, FiniteSets, TLC

VARIABLES
    pc,                       \* position in write_optimizations
    run,                      \* number of the current invocation of the module
    params,                   \* module.params of the tuning inputs
    path_kind,                \* what `path` names: "dir", "missing" or "file"
    file,                     \* text of the target file on disk
    pg_conf_lines,            \* list read from the file, edited in place
    pgtune_config,            \* dict returned by get_pgtune_config (<<>> = none yet)
    pgtune_config_to_append,  \* keys still in the dict of parameters to append
    updated_parameters,       \* list of keys
    added_parameters,         \* list of keys
    changed,                  \* local `changed` of write_optimizations
    lineno,                   \* index of the next line of the merge loop (1-based)
    n_stat,                   \* os.path.isdir / os.path.exists calls on path in this run
    n_read,                   \* open+readlines of path in this run
    n_backup,                 \* module.backup_local calls in this run
    n_write,                  \* write_changes calls in this run
    failure,                  \* "" or what ended the run abnormally
    results_changed           \* results['changed'] (<<>> before it is set)

vars == <<pc, run, params, path_kind, file, pg_conf_lines, pgtune_config,
          pgtune_config_to_append, updated_parameters, added_parameters, changed,
          lineno, n_stat, n_read, n_backup, n_write, failure,
          results_changed>>

----------------------------------------------------------------------------
(* Bounds of the model *)

\* Largest number of lines of the initial target file.
MaxLines == 2

\* Largest number of successive invocations of the module on the same file.
MaxRuns == 2

----------------------------------------------------------------------------
(* Text primitives *)

\* Python's \s for the characters that occur in the model.
IsSpace(c) == c \in {" ", "\t", "\n", "\r"}

\* The character class [\S^#]: a non-space character, or '^', or '#'.
IsKeyChar(c) == ~IsSpace(c) \/ c \in {"^", "#"}

\* The character class [\s#].
IsSpaceOrHash(c) == IsSpace(c) \/ c = "#"

RECURSIVE SkipSpace(_, _)
\* First index >= i of s that is not matched by \s (Len(s)+1 if none).
SkipSpace(s, i) ==
    IF i <= Len(s) /\ IsSpace(s[i]) THEN SkipSpace(s, i + 1) ELSE i

RECURSIVE SkipKeyChar(_, _)
\* First index >= i of s that is not matched by [\S^#].
SkipKeyChar(s, i) ==
    IF i <= Len(s) /\ IsKeyChar(s[i]) THEN SkipKeyChar(s, i + 1) ELSE i

RECURSIVE SkipSpaceOrHash(_, _)
\* First index >= i of s that is not matched by [\s#].
SkipSpaceOrHash(s, i) ==
    IF i <= Len(s) /\ IsSpaceOrHash(s[i]) THEN SkipSpaceOrHash(s, i + 1) ELSE i

\* `.*$` from index i: '.' matches anything but a newline, '$' matches at the
\* end of the string or just before a newline that ends it.
RestMatches(s, i) == \A k \in i..(Len(s) - 1) : s[k] # "\n"

\* One way for the pattern to match s from its start: [\s#]* is s[1..p] and
\* key is s[p+1..q]; then \s*, '=', \s*, a non-empty value, and `.*$`.
MatchCandidate(s, p, q) ==
    LET e == SkipSpace(s, q + 1) IN
    /\ e <= Len(s)
    /\ s[e] = "="
    /\ LET v == SkipSpace(s, e + 1) IN
       /\ v <= Len(s)
       /\ IsKeyChar(s[v])
       /\ RestMatches(s, SkipKeyChar(s, v))

\* All (p, q) for which the pattern matches.
MatchCandidates(s) ==
    LET pmax == SkipSpaceOrHash(s, 1) - 1 IN
    { c \in UNION { { <<p, q>> : q \in (p + 1)..(SkipKeyChar(s, p + 1) - 1) } : p \in 0..pmax } :
        MatchCandidate(s, c[1], c[2]) }

\* None of re.match.
NoMatch == [matched |-> FALSE]

\* re.match(r'(?P<setup>[\s#]*(?P<key>[\S^#]+)\s*=\s*(?P<value>[\S^#]+)).*$', line):
\* the backtracking matcher returns the first match in the order of its greedy
\* quantifiers: the longest [\s#]*, then the longest key; \s* and the value
\* are then the longest runs.
ReMatch(line) ==
    LET C == MatchCandidates(line) IN
    IF C = {} THEN NoMatch
    ELSE LET c == CHOOSE x \in C : \A y \in C : y[1] < x[1] \/ (y[1] = x[1] /\ y[2] <= x[2])
             e == SkipSpace(line, c[2] + 1)
             v == SkipSpace(line, e + 1)
             w == SkipKeyChar(line, v) - 1
         IN [matched |-> TRUE,
             setup |-> SubSeq(line, 1, w),
             key |-> SubSeq(line, c[1] + 1, c[2]),
             value |-> SubSeq(line, v, w)]

RECURSIVE Replace(_, _, _)
\* str.replace(old, new) for a non-empty old: every non-overlapping occurrence,
\* left to right.
Replace(s, old, new) ==
    IF Len(s) < Len(old) THEN s
    ELSE IF SubSeq(s, 1, Len(old)) = old
         THEN new \o Replace(SubSeq(s, Len(old) + 1, Len(s)), old, new)
         ELSE <<s[1]>> \o Replace(Tail(s), old, new)

RECURSIVE NextNewline(_, _)
\* Index of the first newline of t at or after i, or Len(t) if there is none.
NextNewline(t, i) ==
    IF i >= Len(t) \/ t[i] = "\n" THEN i ELSE NextNewline(t, i + 1)

RECURSIVE ReadLinesFrom(_, _)
ReadLinesFrom(t, i) ==
    IF i > Len(t) THEN <<>>
    ELSE LET j == NextNewline(t, i) IN <<SubSeq(t, i, j)>> \o ReadLinesFrom(t, j + 1)

\* file.readlines(): the lines of the text, each with its newline; the last
\* line has none when the text does not end with one.
ReadLines(t) == ReadLinesFrom(t, 1)

RECURSIVE Join(_)
\* ''.join(lines)
Join(lines) == IF lines = <<>> THEN <<>> ELSE Head(lines) \o Join(Tail(lines))

Digit == <<<<"0">>, <<"1">>, <<"2">>, <<"3">>, <<"4">>, <<"5">>, <<"6">>, <<"7">>, <<"8">>, <<"9">>>>

RECURSIVE Str(_)
\* str(n) / '{}'.format(n) of a non-negative int.
Str(n) == IF n < 10 THEN Digit[n + 1] ELSE Str(n \div 10) \o Digit[(n % 10) + 1]

----------------------------------------------------------------------------
(* format_size *)

\* 1 << 20 and 1 << 10
GB == 1048576
MB == 1024

\* format_size(size): pretty-format a size in kB.
format_size(size) ==
    IF size % GB = 0 THEN Str(size \div GB) \o <<"G","B">>
    ELSE IF size % MB = 0 THEN Str(size \div MB) \o <<"M","B">>
    ELSE Str(size) \o <<"k","B">>

----------------------------------------------------------------------------
(* distutils.version.LooseVersion for dotted numeric version strings *)

DigitValue(c) == CHOOSE d \in 0..9 : Digit[d + 1] = <<c>>

RECURSIVE ParseVersion(_, _, _)
\* LooseVersion.parse: the string is cut into runs of digits and '.'; the dots
\* and the empty pieces are dropped and each run of digits becomes an int.
\* cur is the run read so far (<<>> when none is open).
ParseVersion(s, i, cur) ==
    IF i > Len(s) THEN cur
    ELSE IF s[i] = "."
         THEN cur \o ParseVersion(s, i + 1, <<>>)
         ELSE ParseVersion(s, i + 1,
                  IF cur = <<>> THEN <<DigitValue(s[i])>>
                  ELSE <<cur[1] * 10 + DigitValue(s[i])>>)

LooseVersion(vstring) == ParseVersion(vstring, 1, <<>>)

RECURSIVE ListLess(_, _)
\* Python list comparison a < b: the first differing items decide; a proper
\* prefix is smaller.
ListLess(a, b) ==
    IF b = <<>> THEN FALSE
    ELSE IF a = <<>> THEN TRUE
    ELSE IF Head(a) # Head(b) THEN Head(a) < Head(b)
    ELSE ListLess(Tail(a), Tail(b))

\* LooseVersion(a) < LooseVersion(b)
VersionLess(a, b) == ListLess(LooseVersion(a), LooseVersion(b))

\* The rank of a character of a version string in the order of str.
CharRank(c) == IF c = "." THEN 0 ELSE 1 + DigitValue(c)

\* VersionGE with the two strings compared as text.
VersionGE_AsText(a, b) ==
    ~ListLess([i \in 1..Len(a) |-> CharRank(a[i])], [i \in 1..Len(b) |-> CharRank(b[i])])

\* LooseVersion(a) >= LooseVersion(b)
VersionGE(a, b) == ~ListLess(LooseVersion(a), LooseVersion(b))

----------------------------------------------------------------------------
(* get_pgtune_config *)

\* connections is None
None == <<>>

\* The text of each key of the configuration dict.
KeyText ==
    [max_connections |-> <<"m","a","x","_","c","o","n","n","e","c","t","i","o","n","s">>,
     shared_buffers |-> <<"s","h","a","r","e","d","_","b","u","f","f","e","r","s">>,
     effective_cache_size |-> <<"e","f","f","e","c","t","i","v","e","_","c","a","c","h","e","_","s","i","z","e">>,
     work_mem |-> <<"w","o","r","k","_","m","e","m">>,
     maintenance_work_mem |-> <<"m","a","i","n","t","e","n","a","n","c","e","_","w","o","r","k","_","m","e","m">>,
     checkpoint_segments |-> <<"c","h","e","c","k","p","o","i","n","t","_","s","e","g","m","e","n","t","s">>,
     min_wal_size |-> <<"m","i","n","_","w","a","l","_","s","i","z","e">>,
     max_wal_size |-> <<"m","a","x","_","w","a","l","_","s","i","z","e">>,
     checkpoint_completion_target |-> <<"c","h","e","c","k","p","o","i","n","t","_","c","o","m","p","l","e","t","i","o","n","_","t","a","r","g","e","t">>,
     wal_buffers |-> <<"w","a","l","_","b","u","f","f","e","r","s">>,
     default_statistics_target |-> <<"d","e","f","a","u","l","t","_","s","t","a","t","i","s","t","i","c","s","_","t","a","r","g","e","t">>,
     random_page_cost |-> <<"r","a","n","d","o","m","_","p","a","g","e","_","c","o","s","t">>,
     effective_io_concurrency |-> <<"e","f","f","e","c","t","i","v","e","_","i","o","_","c","o","n","c","u","r","r","e","n","c","y">>,
     max_worker_processes |-> <<"m","a","x","_","w","o","r","k","e","r","_","p","r","o","c","e","s","s","e","s">>,
     max_parallel_workers_per_gather |-> <<"m","a","x","_","p","a","r","a","l","l","e","l","_","w","o","r","k","e","r","s","_","p","e","r","_","g","a","t","h","e","r">>,
     max_parallel_workers |-> <<"m","a","x","_","p","a","r","a","l","l","e","l","_","w","o","r","k","e","r","s">>]

\* Keys that the formatting pass leaves as they are.
NotFormatted ==
    {"max_connections", "checkpoint_segments", "checkpoint_completion_target",
     "default_statistics_target", "random_page_cost", "effective_io_concurrency",
     "max_worker_processes", "max_parallel_workers_per_gather", "max_parallel_workers"}

\* connections < 10, when connections is given
InvalidConnections(p) == p.connections # None /\ p.connections[1] < 10

\* InvalidCpus with the upper limit mistyped.
InvalidCpus_WrongLimit(p) == p.cpus <= 0 \/ p.cpus > 99999

\* cpus <= 0 or cpus > 9999
InvalidCpus(p) == p.cpus <= 0 \/ p.cpus > 9999

max_connections(p) ==
    IF p.connections = None
    THEN CASE p.db_type = "desktop" -> 10
           [] p.db_type = "dw" -> 20
           [] p.db_type = "mixed" -> 100
           [] p.db_type = "oltp" -> 300
           [] p.db_type = "web" -> 200
    ELSE p.connections[1]

\* total_memory << 10
total_memory_kb(p) == p.total_memory * 1024

\* config['shared_buffers'] before the Windows limit
shared_buffers_share(p) ==
    IF p.db_type = "desktop" THEN total_memory_kb(p) \div 16
    ELSE total_memory_kb(p) \div 4

\* shared_buffers without the Windows limit.
shared_buffers_NoLimit(p) == shared_buffers_share(p)

\* config['shared_buffers'] as a number of kB: limited to 512MB on Windows
shared_buffers(p) ==
    IF p.os_type = "windows" /\ shared_buffers_share(p) > 512 * 1024
    THEN 512 * 1024
    ELSE shared_buffers_share(p)

effective_cache_size(p) ==
    IF p.db_type = "desktop" THEN total_memory_kb(p) \div 4
    ELSE (3 * total_memory_kb(p)) \div 4

\* int(math.ceil(0.5 * cpus))
max_parallel_workers_per_gather(p) == (p.cpus + 1) \div 2

\* The db_type branches assign config['work_mem'] and the next statement
\* overwrites it with int(math.floor(work_mem)); the float quotient
\* (total - shared) / (3. * connections) / workers floors to the integer
\* quotient by the product.
work_mem(p) ==
    LET w == (total_memory_kb(p) - shared_buffers(p))
               \div (3 * max_connections(p) * max_parallel_workers_per_gather(p))
    IN IF w < 64 THEN 64 ELSE w

maintenance_work_mem(p) ==
    LET m == IF p.db_type = "dw" THEN total_memory_kb(p) \div 8
             ELSE total_memory_kb(p) \div 16
    IN IF m > 2 * GB THEN 2 * GB ELSE m

checkpoint_segments(p) ==
    CASE p.db_type = "desktop" -> 3
      [] p.db_type = "dw" -> 128
      [] p.db_type = "oltp" -> 64
      [] OTHER -> 32

min_wal_size(p) ==
    CASE p.db_type = "desktop" -> 100 * 1024
      [] p.db_type = "dw" -> 4 * GB
      [] p.db_type = "oltp" -> 2 * GB
      [] OTHER -> 1 * GB

max_wal_size(p) ==
    CASE p.db_type = "desktop" -> 1024 * 1024
      [] p.db_type = "dw" -> 8 * GB
      [] p.db_type = "oltp" -> 4 * GB
      [] OTHER -> 2 * GB

\* str() of the float
checkpoint_completion_target(p) ==
    CASE p.db_type = "desktop" -> <<"0",".","5">>
      [] p.db_type = "web" -> <<"0",".","7">>
      [] OTHER -> <<"0",".","9">>

wal_buffers(p) ==
    LET w == (3 * shared_buffers(p)) \div 100
        c == IF w > 16 * 1024 THEN 16 * 1024 ELSE w
    IN IF 14 * 1024 < c /\ c < 16 * 1024 THEN 16 * 1024 ELSE c

default_statistics_target(p) == IF p.db_type = "dw" THEN 500 ELSE 100

\* str() of 4 or of 1.1
random_page_cost(p) == IF p.harddrive_type = "hdd" THEN <<"4">> ELSE <<"1",".","1">>

effective_io_concurrency(p) ==
    CASE p.harddrive_type = "hdd" -> 2
      [] p.harddrive_type = "ssd" -> 200
      [] p.harddrive_type = "san" -> 300

V95 == <<"9",".","5">>
V96 == <<"9",".","6">>
V10 == <<"1","0">>

\* Keys set by the CPU section.
ParallelKeys(p) ==
    IF VersionGE(p.db_version, V95) /\ p.cpus > 1
    THEN {"max_worker_processes"}
         \cup (IF VersionGE(p.db_version, V96)
               THEN {"max_parallel_workers_per_gather"}
                    \cup (IF VersionGE(p.db_version, V10)
                          THEN {"max_parallel_workers"} ELSE {})
               ELSE {})
    ELSE {}

\* The keys of config when get_pgtune_config returns.
ConfigKeys(p) ==
    {"max_connections", "shared_buffers", "effective_cache_size", "work_mem",
     "maintenance_work_mem", "checkpoint_completion_target", "wal_buffers",
     "default_statistics_target", "random_page_cost"}
    \cup (IF VersionLess(p.db_version, V95)
          THEN {"checkpoint_segments"} ELSE {"min_wal_size", "max_wal_size"})
    \cup (IF p.os_type # "windows" THEN {"effective_io_concurrency"} ELSE {})
    \cup ParallelKeys(p)

\* config[key] before the formatting pass: a number, or the str() of a value
\* that is or may be a float.
RawValue(p, key) ==
    CASE key = "max_connections" -> max_connections(p)
      [] key = "shared_buffers" -> shared_buffers(p)
      [] key = "effective_cache_size" -> effective_cache_size(p)
      [] key = "work_mem" -> work_mem(p)
      [] key = "maintenance_work_mem" -> maintenance_work_mem(p)
      [] key = "checkpoint_segments" -> checkpoint_segments(p)
      [] key = "min_wal_size" -> min_wal_size(p)
      [] key = "max_wal_size" -> max_wal_size(p)
      [] key = "checkpoint_completion_target" -> checkpoint_completion_target(p)
      [] key = "wal_buffers" -> wal_buffers(p)
      [] key = "default_statistics_target" -> default_statistics_target(p)
      [] key = "random_page_cost" -> random_page_cost(p)
      [] key = "effective_io_concurrency" -> effective_io_concurrency(p)
      [] key = "max_worker_processes" -> p.cpus
      [] key = "max_parallel_workers_per_gather" -> max_parallel_workers_per_gather(p)
      [] key = "max_parallel_workers" -> p.cpus

\* str(config[key]) after the formatting pass: format_size for every key
\* that is not in the list, the value as it is for the others.
ConfigValue(p, key) ==
    IF key \notin NotFormatted THEN format_size(RawValue(p, key))
    ELSE IF key \in {"checkpoint_completion_target", "random_page_cost"}
         THEN RawValue(p, key)
         ELSE Str(RawValue(p, key))

\* The dict get_pgtune_config returns for valid inputs, each value as its str().
get_pgtune_config(p) == [key \in ConfigKeys(p) |-> ConfigValue(p, key)]

----------------------------------------------------------------------------
(* write_optimizations: text it writes *)

\* datetime.date.today() formatted with {:%Y-%m-%d}
Today == <<"2","0","1","8","-","0","3","-","1","4">>

\* '#Ansible: updated by postgresql_tune on {:%Y-%m-%d} (previous value: {})'
UpdatedComment(value) ==
    <<"#","A","n","s","i","b","l","e",":"," ","u","p","d","a","t","e","d"," ","b","y"," ","p","o","s","t","g","r","e","s","q","l","_","t","u","n","e"," ","o","n"," ">> \o Today
        \o <<" ","(","p","r","e","v","i","o","u","s"," ","v","a","l","u","e",":"," ">> \o value \o <<")">>

\* '#Ansible: added by postgresql_tune on {:%Y-%m-%d}'
AddedComment == <<"#","A","n","s","i","b","l","e",":"," ","a","d","d","e","d"," ","b","y"," ","p","o","s","t","g","r","e","s","q","l","_","t","u","n","e"," ","o","n"," ">> \o Today

\* '{} = {}'.format(key, pgtune_config[key])
Assignment(config, k) == KeyText[k] \o <<" ","="," ">> \o config[k]

\* '{}\n{}'.format(ansible_comment, line.replace(match.group('setup'), ...))
UpdatedEntry(config, k, line, m) ==
    UpdatedComment(m.value) \o <<"\n">> \o Replace(line, m.setup, Assignment(config, k))

\* '{}\n{} = {}\n'.format(ansible_comment, key, value)
AddedEntry(config, k) == AddedComment \o <<"\n">> \o Assignment(config, k) \o <<"\n">>

\* key in pgtune_config, for the text of a key
InConfig(config, keytext) == \E k \in DOMAIN config : KeyText[k] = keytext

\* The key of the dict that has this text.
KeyNamed(keytext) == CHOOSE k \in DOMAIN KeyText : KeyText[k] = keytext

\* The order in which pgtune_config_to_append.items() yields the keys (the
\* order of a dict; nothing below depends on which order it is).
AppendOrder ==
    <<"max_connections", "shared_buffers", "effective_cache_size", "work_mem",
      "maintenance_work_mem", "checkpoint_segments", "min_wal_size", "max_wal_size",
      "checkpoint_completion_target", "wal_buffers", "default_statistics_target",
      "random_page_cost", "effective_io_concurrency", "max_worker_processes",
      "max_parallel_workers_per_gather", "max_parallel_workers">>

----------------------------------------------------------------------------
(* Inputs *)

\* Bodies of the lines of the initial target file.
LineBodies ==
    { <<"#"," ","-"," ","M","e","m","o","r","y"," ","-">>,
      <<"p","o","r","t"," ","="," ","5","4","3","2">>,
      <<"m","a","x","_","c","o","n","n","e","c","t","i","o","n","s"," ","="," ","1","0","0","\t","#"," ","(","c","h","a","n","g","e"," ","r","e","q","u","i","r","e","s"," ","r","e","s","t","a","r","t",")">>,
      <<"s","h","a","r","e","d","_","b","u","f","f","e","r","s"," ","="," ","1","2","8","M","B">>,
      <<"#","s","h","a","r","e","d","_","b","u","f","f","e","r","s"," ","="," ","3","2","M","B"," ","#"," ","m","i","n"," ","1","2","8","k","B">>,
      <<"r","a","n","d","o","m","_","p","a","g","e","_","c","o","s","t","=","4">>,
      <<"w","o","r","k","_","m","e","m"," ","="," ","4","M","B"," ","#"," ","w","o","r","k","_","m","e","m"," ","="," ","4","M","B">> }

\* The text of a file with these line bodies; the last line ends with a
\* newline or not.
FileOf(bodies, final_newline) ==
    Join([i \in 1..Len(bodies) |->
            bodies[i] \o (IF i < Len(bodies) \/ final_newline THEN <<"\n">> ELSE <<>>)])

\* The target files the runs start from.
InitialFiles ==
    { FileOf(b, nl) : b \in UNION { [1..n -> LineBodies] : n \in 0..MaxLines },
                      nl \in BOOLEAN }

\* Tuning inputs of the runs of write_optimizations.
MixedParams ==
    [db_version |-> <<"9",".","6">>, os_type |-> "linux", db_type |-> "mixed",
     total_memory |-> 8192, connections |-> None, harddrive_type |-> "hdd", cpus |-> 1]

WebParams ==
    [db_version |-> <<"1","0">>, os_type |-> "windows", db_type |-> "web",
     total_memory |-> 4096, connections |-> <<50>>, harddrive_type |-> "ssd", cpus |-> 4]

RunParams ==
    { MixedParams, WebParams,
      [MixedParams EXCEPT !.cpus = 0],
      [MixedParams EXCEPT !.cpus = 10000],
      [MixedParams EXCEPT !.connections = <<9>>],
      [MixedParams EXCEPT !.connections = <<9>>, !.cpus = 0] }

\* Tuning inputs of the runs of get_pgtune_config alone.
CalcParams ==
    [db_version : { <<"9">>, <<"9",".","2">>, <<"9",".","5">>, <<"9",".","6">>, <<"9",".","1","0">>, <<"1","0">>, <<"1","1",".","2">> },
     os_type : {"linux", "windows"},
     db_type : {"desktop", "dw", "mixed", "oltp", "web"},
     total_memory : {128, 2048, 3000, 8192, 65536},
     connections : {None, <<9>>, <<10>>},
     harddrive_type : {"hdd", "ssd", "san"},
     cpus : {0, 1, 2, 4, 9999, 10000}]

----------------------------------------------------------------------------
(* State *)

\* The locals of write_optimizations before the file is read.
FreshRun ==
    /\ pc = "start"
    /\ pg_conf_lines = <<>>
    /\ pgtune_config = <<>>
    /\ pgtune_config_to_append = {}
    /\ updated_parameters = <<>>
    /\ added_parameters = <<>>
    /\ changed = FALSE
    /\ lineno = 1
    /\ n_stat = 0
    /\ n_read = 0
    /\ n_backup = 0
    /\ n_write = 0
    /\ failure = ""
    /\ results_changed = <<>>

Init ==
    /\ run = 1
    /\ params \in RunParams
    /\ path_kind \in {"dir", "missing", "file"}
    /\ file \in (IF path_kind = "file" THEN InitialFiles ELSE {<<>>})
    /\ FreshRun

\* get_pgtune_config is about to be called, after the read of an empty file.
InitCalc ==
    /\ run = 1
    /\ params \in CalcParams
    /\ path_kind = "file"
    /\ file = <<>>
    /\ pc = "compute"
    /\ pg_conf_lines = <<>>
    /\ pgtune_config = <<>>
    /\ pgtune_config_to_append = {}
    /\ updated_parameters = <<>>
    /\ added_parameters = <<>>
    /\ changed = FALSE
    /\ lineno = 1
    /\ n_stat = 2
    /\ n_read = 1
    /\ n_backup = 0
    /\ n_write = 0
    /\ failure = ""
    /\ results_changed = <<>>

----------------------------------------------------------------------------
(* write_optimizations *)

\* module.fail_json(...): the module exits.
Fail(why) ==
    /\ pc' = "failed"
    /\ failure' = why

\* if os.path.isdir(path): fail_json(rc=256)
CheckIsDir ==
    /\ pc = "start"
    /\ n_stat' = n_stat + 1
    /\ IF path_kind = "dir"
       THEN Fail("is a directory")
       ELSE pc' = "exists" /\ UNCHANGED failure
    /\ UNCHANGED <<run, params, path_kind, file, pg_conf_lines, pgtune_config,
                   pgtune_config_to_append, updated_parameters, added_parameters,
                   changed, lineno, n_read, n_backup, n_write, results_changed>>

\* if not os.path.exists(path): fail_json(rc=257)
CheckExists ==
    /\ pc = "exists"
    /\ n_stat' = n_stat + 1
    /\ IF path_kind = "missing"
       THEN Fail("does not exist")
       ELSE pc' = "read" /\ UNCHANGED failure
    /\ UNCHANGED <<run, params, path_kind, file, pg_conf_lines, pgtune_config,
                   pgtune_config_to_append, updated_parameters, added_parameters,
                   changed, lineno, n_read, n_backup, n_write, results_changed>>

\* open(path, 'rb'); readlines(); close()
ReadFile ==
    /\ pc = "read"
    /\ pg_conf_lines' = ReadLines(file)
    /\ n_read' = n_read + 1
    /\ pc' = "compute"
    /\ UNCHANGED <<run, params, path_kind, file, pgtune_config,
                   pgtune_config_to_append, updated_parameters, added_parameters,
                   changed, lineno, n_stat, n_backup, n_write, failure,
                   results_changed>>

\* pgtune_config, warnings = get_pgtune_config(module), and the locals set up
\* before the loop. get_pgtune_config fails on connections first, then on cpus.
GetPgtuneConfig ==
    /\ pc = "compute"
    /\ IF InvalidConnections(params)
       THEN /\ Fail("connections must be an integer greater than or equal to 10")
            /\ UNCHANGED <<pgtune_config, pgtune_config_to_append>>
       ELSE IF InvalidCpus(params)
       THEN /\ Fail("cpus must be a strictly positive integer")
            /\ UNCHANGED <<pgtune_config, pgtune_config_to_append>>
       ELSE /\ pgtune_config' = get_pgtune_config(params)
            /\ pgtune_config_to_append' = DOMAIN pgtune_config'
            /\ pc' = "merge"
            /\ UNCHANGED failure
    /\ UNCHANGED <<run, params, path_kind, file, pg_conf_lines, updated_parameters,
                   added_parameters, changed, lineno, n_stat, n_read,
                   n_backup, n_write, results_changed>>

\* AlreadySet with the comparison never true.
AlreadySet_Never(config, k, value) == FALSE

\* if str(pgtune_config[key]) == value
AlreadySet(config, k, value) == config[k] = value

\* PopKey with the key left in the dict.
PopKey_Keep(to_append, k) == to_append

\* What pgtune_config_to_append.pop(key) leaves in the dict, for a key in it.
PopKey(to_append, k) == to_append \ {k}

\* ChangedByAppend with the assignment in the append loop missing.
ChangedByAppend_Unset(was_changed, keys) == was_changed

\* changed after the loop that appends `keys`: each iteration sets it.
ChangedByAppend(was_changed, keys) == was_changed \/ keys # <<>>

\* ShouldWrite with the test of changed missing.
ShouldWrite_Always(is_changed) == TRUE

\* if changed:
ShouldWrite(is_changed) == is_changed

\* The loop is at a line.
AtLine == pc = "merge" /\ lineno <= Len(pg_conf_lines)

\* if match is None: continue
MergeLineNoMatch ==
    /\ AtLine
    /\ ~ReMatch(pg_conf_lines[lineno]).matched
    /\ lineno' = lineno + 1
    /\ UNCHANGED <<pc, run, params, path_kind, file, pg_conf_lines, pgtune_config,
                   pgtune_config_to_append, updated_parameters, added_parameters,
                   changed, n_stat, n_read, n_backup, n_write, failure,
                   results_changed>>

\* if not key in pgtune_config: continue
MergeLineOtherKey ==
    /\ AtLine
    /\ LET m == ReMatch(pg_conf_lines[lineno]) IN
       /\ m.matched
       /\ ~InConfig(pgtune_config, m.key)
    /\ lineno' = lineno + 1
    /\ UNCHANGED <<pc, run, params, path_kind, file, pg_conf_lines, pgtune_config,
                   pgtune_config_to_append, updated_parameters, added_parameters,
                   changed, n_stat, n_read, n_backup, n_write, failure,
                   results_changed>>

\* if str(pgtune_config[key]) == value: pgtune_config_to_append.pop(key); continue
\* pop raises KeyError when an earlier line already removed the key.
MergeLineEqual ==
    /\ AtLine
    /\ LET m == ReMatch(pg_conf_lines[lineno]) IN
       /\ m.matched
       /\ InConfig(pgtune_config, m.key)
       /\ LET k == KeyNamed(m.key) IN
          /\ AlreadySet(pgtune_config, k, m.value)
          /\ IF k \in pgtune_config_to_append
             THEN /\ pgtune_config_to_append' = PopKey(pgtune_config_to_append, k)
                  /\ lineno' = lineno + 1
                  /\ UNCHANGED <<pc, failure>>
             ELSE /\ Fail("KeyError")
                  /\ UNCHANGED <<pgtune_config_to_append, lineno>>
    /\ UNCHANGED <<run, params, path_kind, file, pg_conf_lines, pgtune_config,
                   updated_parameters, added_parameters, changed, n_stat,
                   n_read, n_backup, n_write, results_changed>>

\* The rest of the loop body: the line is replaced by the annotation comment
\* and the rewritten line, changed is set, the key is popped (KeyError when an
\* earlier line already removed it) and recorded as updated.
MergeLineUpdate ==
    /\ AtLine
    /\ LET line == pg_conf_lines[lineno]
           m == ReMatch(line)
       IN
       /\ m.matched
       /\ InConfig(pgtune_config, m.key)
       /\ LET k == KeyNamed(m.key) IN
          /\ ~AlreadySet(pgtune_config, k, m.value)
          /\ pg_conf_lines' =
                [pg_conf_lines EXCEPT ![lineno] = UpdatedEntry(pgtune_config, k, line, m)]
          /\ changed' = TRUE
          /\ IF k \in pgtune_config_to_append
             THEN /\ pgtune_config_to_append' = PopKey(pgtune_config_to_append, k)
                  /\ updated_parameters' = Append(updated_parameters, k)
                  /\ lineno' = lineno + 1
                  /\ UNCHANGED <<pc, failure>>
             ELSE /\ Fail("KeyError")
                  /\ UNCHANGED <<pgtune_config_to_append, updated_parameters, lineno>>
    /\ UNCHANGED <<run, params, path_kind, file, pgtune_config, added_parameters,
                   n_stat, n_read, n_backup, n_write, results_changed>>

\* After the loop: every key left in pgtune_config_to_append is appended with
\* its comment and recorded as added.
AppendParameters ==
    /\ pc = "merge"
    /\ lineno > Len(pg_conf_lines)
    /\ LET keys == SelectSeq(AppendOrder, LAMBDA k : k \in pgtune_config_to_append) IN
       /\ pg_conf_lines' =
             pg_conf_lines \o [i \in 1..Len(keys) |-> AddedEntry(pgtune_config, keys[i])]
       /\ changed' = ChangedByAppend(changed, keys)
       /\ added_parameters' = keys
    /\ pc' = "merged"
    /\ UNCHANGED <<run, params, path_kind, file, pgtune_config, pgtune_config_to_append,
                   updated_parameters, lineno, n_stat, n_read, n_backup, n_write,
                   failure, results_changed>>

\* if changed: if backup and os.path.exists(path): module.backup_local(path)
BackupFile ==
    /\ pc = "merged"
    /\ ShouldWrite(changed)
    /\ \E backup \in BOOLEAN : n_backup' = n_backup + (IF backup THEN 1 ELSE 0)
    /\ pc' = "write"
    /\ UNCHANGED <<run, params, path_kind, file, pg_conf_lines, pgtune_config,
                   pgtune_config_to_append, updated_parameters, added_parameters,
                   changed, lineno, n_stat, n_read, n_write, failure,
                   results_changed>>

\* contents = ''.join(pg_conf_lines)
Contents == Join(pg_conf_lines)

\* write_changes(module, contents, path): the temporary file is moved onto the
\* path (onto what it links to, with follow), which then holds contents.
WriteChanges ==
    /\ pc = "write"
    /\ file' = Contents
    /\ n_write' = n_write + 1
    /\ pc' = "attrs"
    /\ UNCHANGED <<run, params, path_kind, pg_conf_lines, pgtune_config,
                   pgtune_config_to_append, updated_parameters, added_parameters,
                   changed, lineno, n_stat, n_read, n_backup, failure,
                   results_changed>>

\* if changed: is false
NoChange ==
    /\ pc = "merged"
    /\ ~ShouldWrite(changed)
    /\ pc' = "attrs"
    /\ UNCHANGED <<run, params, path_kind, file, pg_conf_lines, pgtune_config,
                   pgtune_config_to_append, updated_parameters, added_parameters,
                   changed, lineno, n_stat, n_read, n_backup, n_write,
                   failure, results_changed>>

\* results['msg'], results['changed'] = check_file_attrs(module, changed, msg)
CheckFileAttrs ==
    /\ pc = "attrs"
    /\ \E attrs_differ \in BOOLEAN : results_changed' = <<changed \/ attrs_differ>>
    /\ pc' = "done"
    /\ UNCHANGED <<run, params, path_kind, file, pg_conf_lines, pgtune_config,
                   pgtune_config_to_append, updated_parameters, added_parameters,
                   changed, lineno, n_stat, n_read, n_backup, n_write,
                   failure>>

\* The module is invoked again with the same parameters on the file as the
\* previous invocation left it.
Rerun ==
    /\ pc = "done"
    /\ run < MaxRuns
    /\ run' = run + 1
    /\ pc' = "start"
    /\ pg_conf_lines' = <<>>
    /\ pgtune_config' = <<>>
    /\ pgtune_config_to_append' = {}
    /\ updated_parameters' = <<>>
    /\ added_parameters' = <<>>
    /\ changed' = FALSE
    /\ lineno' = 1
    /\ n_stat' = 0
    /\ n_read' = 0
    /\ n_backup' = 0
    /\ n_write' = 0
    /\ failure' = ""
    /\ results_changed' = <<>>
    /\ UNCHANGED <<params, path_kind, file>>

Next ==
    \/ CheckIsDir
    \/ CheckExists
    \/ ReadFile
    \/ GetPgtuneConfig
    \/ MergeLineNoMatch
    \/ MergeLineOtherKey
    \/ MergeLineEqual
    \/ MergeLineUpdate
    \/ AppendParameters
    \/ BackupFile
    \/ WriteChanges
    \/ NoChange
    \/ CheckFileAttrs
    \/ Rerun

Spec == Init /\ [][Next]_vars

\* get_pgtune_config alone, over a wider range of tuning inputs.
NextCalc == GetPgtuneConfig

SpecCalc == InitCalc /\ [][NextCalc]_vars

----------------------------------------------------------------------------
(* Properties *)

\* The elements of a list.
Range(seq) == { seq[i] : i \in DOMAIN seq }

\* What the loop's tests make of a line: the key of the dict the line is an
\* assignment of ("" when it has no assignment match or its key is not in
\* the dict), its value, what follows its assignment portion, and whether
\* the loop passes over it (no such key, or the value is already
\* str(pgtune_config[key])).
LineInfo(line) ==
    LET m == ReMatch(line) IN
    IF m.matched /\ \E k \in DOMAIN pgtune_config : KeyText[k] = m.key
    THEN LET k == CHOOSE k \in DOMAIN pgtune_config : KeyText[k] = m.key IN
         [line |-> line, key |-> k, value |-> m.value,
          rest |-> SubSeq(line, Len(m.setup) + 1, Len(line)),
          passes |-> (pgtune_config[k] = m.value)]
    ELSE [line |-> line, key |-> "", value |-> <<>>, rest |-> <<>>, passes |-> TRUE]

\* The lines the current run read, each with what the loop makes of it:
\* until write_changes the file on disk is still the text that was read.
OriginalLines ==
    LET lines == ReadLines(file) IN [i \in 1..Len(lines) |-> LineInfo(lines[i])]

\* The merge loop and the append loop of this run have both finished.
MergeCompleted == pc \in {"merged", "write", "attrs", "done"}

\* cpus outside [1, 9999], or connections given and below 10.
InvalidInput ==
    \/ params.cpus < 1
    \/ params.cpus > 9999
    \/ (params.connections # None /\ params.connections[1] < 10)

\* The run ended with one of the two failures of get_pgtune_config.
InvalidInputFailure ==
    /\ pc = "failed"
    /\ failure \in {"connections must be an integer greater than or equal to 10",
                    "cpus must be a strictly positive integer"}

RECURSIVE DigitsValue(_)
\* The number a text of decimal digits denotes.
DigitsValue(s) ==
    IF s = <<>> THEN 0
    ELSE DigitsValue(SubSeq(s, 1, Len(s) - 1)) * 10 + DigitValue(s[Len(s)])

\* The number of kB a formatted size denotes: its numeric prefix re-expanded
\* by its unit.
SizeInKB(text) ==
    LET n == Len(text)
        number == DigitsValue(SubSeq(text, 1, n - 2))
        unit == SubSeq(text, n - 1, n)
    IN CASE unit = <<"G","B">> -> number * 1024 * 1024
         [] unit = <<"M","B">> -> number * 1024
         [] unit = <<"k","B">> -> number

\* The versions of CalcParams that are at least 9.5, at least 9.6 and at
\* least 10 when compared component by component as numbers.
AtLeast95 == { <<"9",".","5">>, <<"9",".","6">>, <<"9",".","1","0">>, <<"1","0">>, <<"1","1",".","2">> }
AtLeast96 == { <<"9",".","6">>, <<"9",".","1","0">>, <<"1","0">>, <<"1","1",".","2">> }
AtLeast10 == { <<"1","0">>, <<"1","1",".","2">> }

\* C1: merge idempotence. A second run of the module, with the same
\* parameters, on the text the first run produced finishes its merge with
\* changed false, nothing updated and nothing added (and does not fail).
MergeIdempotence ==
    run >= 2 =>
        /\ failure # "KeyError"
        /\ changed = FALSE
        /\ updated_parameters = <<>>
        /\ added_parameters = <<>>

\* C2: pass-through frame of the merge. When the merge has finished, every
\* line that was read and has no assignment match, or a key that is not in
\* the dict, or a value that is already the target is at its place in
\* pg_conf_lines unchanged; the other lines that were read are at their place
\* too, each as one annotation comment line followed by one line; and the
\* only further entries are those of the appended block, after all of them.
PassThroughFrame ==
    pc = "merged" =>
        LET orig == OriginalLines
            n == Len(orig)
        IN
        /\ Len(pg_conf_lines) = n + Len(added_parameters)
        /\ \A i \in 1..n :
              IF orig[i].passes
              THEN pg_conf_lines[i] = orig[i].line
              ELSE LET entry == ReadLines(pg_conf_lines[i]) IN
                   /\ Len(entry) = 2
                   /\ entry[1] = UpdatedComment(orig[i].value) \o <<"\n">>
        /\ \A j \in (n + 1)..Len(pg_conf_lines) :
              SubSeq(pg_conf_lines[j], 1, Len(AddedComment) + 1) = AddedComment \o <<"\n">>

\* A run whose merge left a line with an already correct value untouched
\* and rewrote another line.
PassThroughWitness ==
    /\ pc = "merged"
    /\ LET orig == OriginalLines IN
       \E i, j \in 1..Len(orig) :
          /\ orig[i].key # ""
          /\ orig[i].passes
          /\ pg_conf_lines[i] = orig[i].line
          /\ ~orig[j].passes
          /\ pg_conf_lines[j] # orig[j].line

\* C3: update correctness. When the merge has finished, every line that was
\* read with a key of the dict and a value other than the target is replaced
\* by the annotation comment with the date and the previous value, a newline,
\* and the line with its assignment portion replaced by `key = <new value>`
\* and whatever followed that portion (inline comment, line ending) kept as
\* it was; and the key is in updated_parameters.
UpdateCorrectness ==
    pc = "merged" =>
        LET orig == OriginalLines IN
        \A i \in 1..Len(orig) :
            ~orig[i].passes =>
                /\ pg_conf_lines[i] =
                      <<"#","A","n","s","i","b","l","e",":"," ","u","p","d","a","t","e","d"," ","b","y"," ","p","o","s","t","g","r","e","s","q","l","_","t","u","n","e"," ","o","n"," ">> \o Today
                      \o <<" ","(","p","r","e","v","i","o","u","s"," ","v","a","l","u","e",":"," ">> \o orig[i].value \o <<")">> \o <<"\n">>
                      \o KeyText[orig[i].key] \o <<" ","="," ">> \o pgtune_config[orig[i].key]
                      \o orig[i].rest
                /\ orig[i].key \in Range(updated_parameters)

\* C4: append correctness. When the merge has finished, a key of the dict
\* is in added_parameters exactly when no line that was read matched it
\* (already correct or rewritten); and the entries after the lines that were
\* read are, one per added key, its 'added' comment (no previous value), a
\* newline and its own `key = value` line.
AppendCorrectness ==
    pc = "merged" =>
        LET orig == OriginalLines
            n == Len(orig)
            matched == { orig[i].key : i \in 1..n }
        IN
        /\ \A k \in DOMAIN pgtune_config :
              (k \in Range(added_parameters)) <=> (k \notin matched)
        /\ Cardinality(Range(added_parameters)) = Len(added_parameters)
        /\ Len(pg_conf_lines) = n + Len(added_parameters)
        /\ \A j \in 1..Len(added_parameters) :
              pg_conf_lines[n + j] =
                  <<"#","A","n","s","i","b","l","e",":"," ","a","d","d","e","d"," ","b","y"," ","p","o","s","t","g","r","e","s","q","l","_","t","u","n","e"," ","o","n"," ">> \o Today \o <<"\n">>
                  \o KeyText[added_parameters[j]] \o <<" ","="," ">>
                  \o pgtune_config[added_parameters[j]] \o <<"\n">>

\* A first run on a file that has a line for shared_buffers and none for
\* work_mem: work_mem is appended and added, shared_buffers is not.
AppendWitness ==
    /\ pc = "merged"
    /\ run = 1
    /\ "work_mem" \in Range(added_parameters)
    /\ "shared_buffers" \notin Range(added_parameters)
    /\ LET orig == OriginalLines IN
       /\ \E i \in 1..Len(orig) : orig[i].key = "shared_buffers"
       /\ Len(pg_conf_lines) > Len(orig)

\* C5: repeated keys never make the merge fail: no run ends in the KeyError
\* of pgtune_config_to_append.pop(key).
RepeatedKeysNeverFail == failure # "KeyError"

\* C6: InvalidInput ordering. A run that fails on cpus or on connections has
\* made no access to the target file before (no isdir or exists test, no
\* read), and no configuration was returned.
InvalidInputBeforeFileAccess ==
    InvalidInputFailure =>
        /\ n_stat = 0
        /\ n_read = 0
        /\ pgtune_config = <<>>

\* C6 as the code has it: with cpus outside [1, 9999] or connections below
\* 10, no configuration is ever returned and the run never merges, backs up
\* or writes; when the path is an existing file the run fails with the
\* InvalidInput failure after the two tests of the path and the one read of
\* the file.
InvalidInputAfterRead ==
    /\ InvalidInput =>
          /\ pgtune_config = <<>>
          /\ pc \in {"start", "exists", "read", "compute", "failed"}
          /\ n_backup = 0
          /\ n_write = 0
    /\ InvalidInputFailure =>
          /\ InvalidInput
          /\ path_kind = "file"
          /\ n_stat = 2
          /\ n_read = 1
          /\ pg_conf_lines = ReadLines(file)
    /\ (pc = "failed" /\ InvalidInput) =>
          (path_kind = "file" <=> InvalidInputFailure)

\* A run with cpus = 0 that failed after it read the file.
InvalidInputWitness ==
    /\ InvalidInputFailure
    /\ params.cpus = 0
    /\ params.connections = None
    /\ n_read = 1
    /\ pg_conf_lines # <<>>

\* C7: parallelism version gating. For valid inputs, max_worker_processes is
\* in the configuration iff the version is at least 9.5 and cpus > 1;
\* max_parallel_workers_per_gather iff moreover the version is at least 9.6;
\* max_parallel_workers iff moreover the version is at least 10 ("10" and
\* "9.10" are above "9.6").
ParallelismGating ==
    pc = "merge" =>
        LET K == DOMAIN pgtune_config
            v == params.db_version
            many == params.cpus > 1
        IN
        /\ ("max_worker_processes" \in K) <=> (v \in AtLeast95 /\ many)
        /\ ("max_parallel_workers_per_gather" \in K) <=> (v \in AtLeast96 /\ many)
        /\ ("max_parallel_workers" \in K) <=> (v \in AtLeast10 /\ many)
        /\ ("max_parallel_workers" \in K) => ("max_parallel_workers_per_gather" \in K)
        /\ ("max_parallel_workers_per_gather" \in K) => ("max_worker_processes" \in K)
        /\ (v = <<"9",".","6">> /\ params.cpus = 4) =>
              /\ {"max_worker_processes", "max_parallel_workers_per_gather"} \subseteq K
              /\ "max_parallel_workers" \notin K

\* Version 10 with 4 CPUs: all three keys are in the configuration.
ParallelismWitness ==
    /\ pc = "merge"
    /\ params.db_version = <<"1","0">>
    /\ params.cpus = 4
    /\ {"max_worker_processes", "max_parallel_workers_per_gather",
        "max_parallel_workers"} \subseteq DOMAIN pgtune_config
    /\ pgtune_config["max_parallel_workers"] = <<"4">>

\* C8: Windows cap. For valid inputs the shared_buffers that is emitted
\* denotes, on windows, the smaller of 512 MB and the share of the memory
\* (a 16th for desktop, a quarter otherwise), and on linux the share itself;
\* 65536 MB, mixed, windows gives exactly `512MB`.
WindowsCap ==
    pc = "merge" =>
        LET share == (params.total_memory * 1024)
                        \div (IF params.db_type = "desktop" THEN 16 ELSE 4)
            emitted == SizeInKB(pgtune_config["shared_buffers"])
        IN
        /\ params.os_type = "windows" =>
              /\ emitted = (IF share < 512 * 1024 THEN share ELSE 512 * 1024)
              /\ emitted <= 512 * 1024
        /\ params.os_type = "linux" => emitted = share
        /\ (params.os_type = "windows" /\ params.total_memory = 65536
                /\ params.db_type = "mixed") =>
              pgtune_config["shared_buffers"] = <<"5","1","2","M","B">>

\* 65536 MB, mixed, windows: shared_buffers is `512MB`, cut down from 16GB.
WindowsCapWitness ==
    /\ pc = "merge"
    /\ params.os_type = "windows"
    /\ params.total_memory = 65536
    /\ params.db_type = "mixed"
    /\ pgtune_config["shared_buffers"] = <<"5","1","2","M","B">>

\* C9: MergeResult invariant. After the merge, no key is both in
\* updated_parameters and in added_parameters, and changed is true exactly
\* when a key was updated or added.
MergeResultInvariant ==
    MergeCompleted =>
        /\ Range(updated_parameters) \cap Range(added_parameters) = {}
        /\ changed <=> (updated_parameters # <<>> \/ added_parameters # <<>>)

\* A merge that updated a key and added others.
MergeResultWitness ==
    /\ pc = "merged"
    /\ changed
    /\ updated_parameters # <<>>
    /\ added_parameters # <<>>

\* C10: write only on change. In a run the file is read at most once, and
\* once when the run gets past the read; the backup and the write happen at
\* most once, only when the merge set changed, the backup before the write;
\* a run that ends with nothing updated and nothing added has written and
\* backed up nothing, and one that ends with changed set has written once.
WriteOnlyOnChange ==
    /\ n_read <= 1
    /\ pc \in {"compute", "merge", "merged", "write", "attrs", "done"} => n_read = 1
    /\ n_write <= 1
    /\ n_backup <= 1
    /\ (n_write > 0 \/ n_backup > 0) => changed
    /\ n_write > 0 => pc \in {"attrs", "done"}
    /\ n_backup > 0 => pc \in {"write", "attrs", "done"}
    /\ pc = "done" => n_write = (IF changed THEN 1 ELSE 0)
    /\ (pc = "done" /\ updated_parameters = <<>> /\ added_parameters = <<>>) =>
          (n_write = 0 /\ n_backup = 0)

\* A second run that found nothing to update or add and ended without a
\* write or a backup, after the one read.
WriteOnlyOnChangeWitness ==
    /\ pc = "done"
    /\ run = 2
    /\ ~changed
    /\ n_read = 1
    /\ n_write = 0
    /\ n_backup = 0
====
